---- MODULE Spec2Model ----
(***************************************************************************)
(* Reference resolution and checking in hecksum.                           *)
(*                                                                         *)
(* Two generations of the code are modelled side by side:                  *)
(*   impl = "legacy"  : src/hecksum.py (Reference, ReferenceFactory and    *)
(*                      its subclasses, Project, Check)                    *)
(*   impl = "package" : src/hecksum/references.py                          *)
(*                                                                         *)
(* Every Python string is a sequence of string tokens; None is the         *)
(* one-token sequence <<"None">>, whose token occurs in no text.           *)
(* Remote content is drawn from bounded sets when an operation fetches it. *)
(* get_raised is the helper of src/hecksum.py; functions_get_raised is the  *)
(* helper references.py imports from hecksum.functions, which raises on a  *)
(* non-success status.                                                     *)
(***************************************************************************)
EXTENDS Integers, Sequences, FiniteSets, TLC

VARIABLES impl, factory, pc, web, ref, exc, remote, check, sink, post

vars == <<impl, factory, pc, web, ref, exc, remote, check, sink, post>>

\* ---------------------------------------------------------------- bounds
MaxBody == 2
MaxText == 3
MaxManifest == 3
MaxSums == 2

\* ------------------------------------------------------------ primitives
None == <<"None">>

NoExc == [cls |-> "none", cause |-> "none"]
RequestException == [cls |-> "RequestException", cause |-> "network"]
PatternAttributeError == [cls |-> "AttributeError", cause |-> "pattern"]
PatternTypeError == [cls |-> "TypeError", cause |-> "pattern"]
MissingAttributeError == [cls |-> "AttributeError", cause |-> "attribute"]
ValidationError == [cls |-> "ValidationError", cause |-> "validation"]
NotCallableTypeError == [cls |-> "TypeError", cause |-> "not_callable"]
KeyError == [cls |-> "KeyError", cause |-> "environment"]

Ok(r) == [ref |-> r, exc |-> NoExc]
Raise(r, e) == [ref |-> r, exc |-> e]

IsSpace(t) == t \in {" ", "\n"}
ContainsSpace(t) == t \in {" ", "\n", "\" "}

RECURSIVE LStrip(_)
LStrip(s) == IF s # <<>> /\ IsSpace(Head(s)) THEN LStrip(Tail(s)) ELSE s

RECURSIVE RStrip(_)
RStrip(s) ==
  IF s # <<>> /\ IsSpace(s[Len(s)]) THEN RStrip(SubSeq(s, 1, Len(s) - 1)) ELSE s

\* constr(strip_whitespace=True)
Strip(s) == RStrip(LStrip(s))

\* HttpUrl: the url pattern admits no whitespace anywhere in the value
ValidUrl(u) == \A i \in 1..Len(u) : ~ContainsSpace(u[i])

\* ------------------------------------------------------- remote content
Statuses == {200, 404, 0}          \* 0: the connection itself fails
NL == [k |-> "\n", v |-> <<>>]
Vals == {<<"a">>, <<"3">>}
KVTokens(keys) == {[k |-> key, v |-> val] : key \in keys, val \in Vals} \cup {NL}

ScriptTokens == {[k |-> "VERSION", v |-> <<"3">>], NL}

Sums == {<<"a">>, <<"b">>}
CodecovLines ==
  {[sum |-> s, name |-> "codecov"] : s \in Sums} \cup {[sum |-> <<"a">>, name |-> "other"]}
Versions == {"3.1.0", "3.2.0"}
Exts == {"deb", "rpm"}
Junk == [sum |-> <<>>, ver |-> "", arch |-> "", ext |-> ""]
Archs == {"linux_arm64", "windows_armv7"}
Releases == {[ver |-> v, arch |-> a] : v \in Versions, a \in Archs}
DopplerLines ==
  {[sum |-> s, ver |-> r.ver, arch |-> r.arch, ext |-> e] :
      s \in Sums, r \in Releases, e \in Exts} \cup {Junk}
ReleasesUrl == "https://github.com/DopplerHQ/cli/releases/"
RedirectUrls ==
  {<<ReleasesUrl, "latest">>} \cup {<<ReleasesUrl, "tag/", v>> : v \in Versions}

NoResponse == [status |-> 0, text |-> <<>>, url |-> <<>>]

\* ------------------------------------------------------ pattern search
\* re.search(key + ': "(.*)"', text).group(1): leftmost occurrence of the key,
\* greedy capture up to the last closing quote of that line
KeyIdx(key, text) == {i \in 1..Len(text) : text[i].k = key}

LineEnd(text, i) ==
  CHOOSE j \in i..Len(text) :
    /\ \A m \in i..j : text[m] # NL
    /\ j = Len(text) \/ text[j + 1] = NL

RECURSIVE Capture(_, _, _)
Capture(text, i, j) ==
  IF i = j THEN text[i].v
  ELSE Capture(text, i, j - 1) \o <<"\" ", text[j].k>> \o text[j].v

Min(S) == CHOOSE i \in S : \A j \in S : i <= j
Max(S) == CHOOSE i \in S : \A j \in S : j <= i

SearchQuoted(key, text) ==
  IF KeyIdx(key, text) = {} THEN None
  ELSE LET i == Min(KeyIdx(key, text)) IN Capture(text, i, LineEnd(text, i))

\* mutant: the last line the pattern matches
SearchLastLine(lines, matching, i) ==
  IF {j \in i..Len(lines) : lines[j] \in matching} = {} THEN 0
  ELSE Max({j \in i..Len(lines) : lines[j] \in matching})

\* re.search over a manifest: the leftmost line among those the pattern
\* matches (matching), 0 when there is none
RECURSIVE SearchLine(_, _, _)
SearchLine(lines, matching, i) ==
  IF i > Len(lines) THEN 0
  ELSE IF lines[i] \in matching THEN i
  ELSE SearchLine(lines, matching, i + 1)

\* re.search(r'\d+\.\d+\.\d+', url)
RECURSIVE SearchVersion(_, _)
SearchVersion(url, i) ==
  IF i > Len(url) THEN "None"
  ELSE IF url[i] \in Versions THEN url[i]
  ELSE SearchVersion(url, i + 1)

\* str.format(version=version)
RECURSIVE Format(_, _)
Format(template, version) ==
  IF template = <<>> THEN <<>>
  ELSE (IF Head(template) = "{version}" THEN version ELSE <<Head(template)>>)
         \o Format(Tail(template), version)

\* ------------------------------------------------------------ get_raised
get_raised(url, r) ==
  IF url = None \/ r.status # 200
  THEN [exc |-> RequestException, text |-> <<>>]
  ELSE [exc |-> NoExc, text |-> r.text]

\* hecksum.functions.get_raised, as imported by references.py
functions_get_raised(url, r) ==
  IF url = None \/ r.status # 200
  THEN [exc |-> RequestException, text |-> <<>>]
  ELSE [exc |-> NoExc, text |-> r.text]

\* ------------------------------------------------------------ attributes
HasAttr(obj, name) == name \in DOMAIN obj

\* --------------------------------------------- hecksum/references.py
IGNORED_EXCEPTIONS == {"RequestException", "AttributeError", "TypeError"}

Fields == {"algorithm", "checksum_url", "download_url", "checksum"}

BaseReference(algorithm, checksum_url, download_url, checksum) ==
  [algorithm |-> algorithm, checksum_url |-> checksum_url,
   download_url |-> download_url, checksum |-> checksum]

\* Reference.Config.validate_assignment over the BaseReference field types
SetAttr(r, field, value) ==
  IF field = "checksum" THEN Ok([r EXCEPT !.checksum = Strip(value)])
  ELSE IF ValidUrl(value) THEN Ok([r EXCEPT ![field] = value])
  ELSE Raise(r, ValidationError)

\* mutant: only None counts as unset
TruthyNotNone(v) == v # None

Truthy(v) == v # None /\ v # <<>>

populated(r) == \A f \in DOMAIN r : Truthy(r[f])

CodecovBashUploader ==
  [cls |-> "CodecovBashUploader", algorithm |-> <<"sha512">>, checksum_url |-> None,
   download_url |-> <<"https://codecov.io/bash">>, checksum |-> None]

Transmission(file_name_template, sha_key, version_key) ==
  [cls |-> "Transmission", algorithm |-> <<"sha256">>,
   checksum_url |-> <<"https://transmissionbt.com/includes/js/constants.js">>,
   download_url |-> None, checksum |-> None,
   file_name_template |-> file_name_template, sha_key |-> sha_key,
   version_key |-> version_key]

Doppler(architecture) ==
  [cls |-> "Doppler", algorithm |-> <<"sha256">>, checksum_url |-> None,
   download_url |-> None, checksum |-> None, architecture |-> architecture]

codecov_bash_uploader == CodecovBashUploader

\* mutant: the generic factory is registered with a static checksum
test_failure_with_checksum ==
  [cls |-> "ReferenceFactory", algorithm |-> <<"sha512">>,
   checksum_url |-> <<"https://hecksum.com/failureSHA512.txt">>,
   download_url |-> <<"https://hecksum.com/failure.txt">>, checksum |-> <<"a">>]

test_failure ==
  [cls |-> "ReferenceFactory", algorithm |-> <<"sha512">>,
   checksum_url |-> <<"https://hecksum.com/failureSHA512.txt">>,
   download_url |-> <<"https://hecksum.com/failure.txt">>, checksum |-> None]

transmission_mac ==
  Transmission(<<"Transmission-", "{version}", ".dmg">>, "sha256_dmg", "current_version_dmg")

transmission_win_32 ==
  Transmission(<<"transmission-", "{version}", "-x86.msi">>, "sha256_msi32", "current_version_msi")

transmission_win_64 ==
  Transmission(<<"transmission-", "{version}", "-x64.msi">>, "sha256_msi64", "current_version_msi")

transmission_linux ==
  Transmission(<<"transmission-", "{version}", ".tar.xz">>, "sha256_tar", "current_version_tar")

doppler_windows_armv7 == Doppler("linux_arm64")

PackageFactories ==
  {codecov_bash_uploader, test_failure, transmission_mac, transmission_win_32,
   transmission_win_64, transmission_linux, doppler_windows_armv7}

\* the lines r'(.*) {2}codecov' matches
CodecovMatching == {line \in CodecovLines : line.name = "codecov"}

ReferenceFactory_populate(self, r, w) ==
  LET body == functions_get_raised(r.checksum_url, w.r1) IN
  IF body.exc # NoExc THEN Raise(r, body.exc)
  ELSE SetAttr(r, "checksum", body.text)

CodecovBashUploader_populate(self, r, w) ==
  LET script == functions_get_raised(r.download_url, w.r1) IN
  IF script.exc # NoExc THEN Raise(r, script.exc) ELSE
  LET version == SearchQuoted("VERSION", script.text) IN
  IF version = None THEN Raise(r, PatternAttributeError) ELSE
  LET a == SetAttr(r, "checksum_url",
             <<"https://raw.githubusercontent.com/codecov/codecov-bash/">>
               \o version \o <<"/SHA512SUM">>) IN
  IF a.exc # NoExc THEN a ELSE
  LET checksum == functions_get_raised(a.ref.checksum_url, w.r2) IN
  IF checksum.exc # NoExc THEN Raise(a.ref, checksum.exc) ELSE
  LET i == SearchLine(checksum.text, CodecovMatching, 1) IN
  IF i = 0 THEN Raise(a.ref, PatternAttributeError)
  ELSE SetAttr(a.ref, "checksum", checksum.text[i].sum)

TransmissionReleases == "https://github.com/transmission/transmission-releases/raw/master/"

Transmission_populate(self, r, w) ==
  LET constants == functions_get_raised(r.checksum_url, w.r1) IN
  IF constants.exc # NoExc THEN Raise(r, constants.exc) ELSE
  LET sha == SearchQuoted(self.sha_key, constants.text) IN
  IF sha = None THEN Raise(r, PatternAttributeError) ELSE
  LET a == SetAttr(r, "checksum", sha) IN
  IF a.exc # NoExc THEN a ELSE
  LET version == SearchQuoted(self.version_key, constants.text) IN
  IF version = None THEN Raise(a.ref, PatternAttributeError) ELSE
  LET file_name == Format(self.file_name_template, version) IN
  SetAttr(a.ref, "download_url", <<TransmissionReleases>> \o file_name)

DopplerDownload == "https://github.com/DopplerHQ/cli/releases/download/"

\* the lines the manifest pattern matches for one version and architecture
DopplerMatching(version, architecture) ==
  {line \in DopplerLines \ {Junk} : line.ver = version /\ line.arch = architecture}

\* group(2) of the manifest pattern
DopplerFileName(line) == <<"doppler_", line.ver, "_", line.arch, ".", line.ext>>

Doppler_populate(self, r, w) ==
  IF w.r1.status = 0 THEN Raise(r, RequestException) ELSE
  LET version == SearchVersion(w.r1.url, 1) IN
  IF version = "None" THEN Raise(r, PatternTypeError) ELSE
  LET a == SetAttr(r, "checksum_url", <<DopplerDownload, version, "/checksums.txt">>) IN
  IF a.exc # NoExc THEN a ELSE
  LET checksum == functions_get_raised(a.ref.checksum_url, w.r2) IN
  IF checksum.exc # NoExc THEN Raise(a.ref, checksum.exc) ELSE
  LET i == SearchLine(checksum.text, DopplerMatching(version, self.architecture), 1) IN
  IF i = 0 THEN Raise(a.ref, PatternAttributeError) ELSE
  LET b == SetAttr(a.ref, "checksum", checksum.text[i].sum) IN
  IF b.exc # NoExc THEN b
  ELSE SetAttr(b.ref, "download_url",
         <<DopplerDownload, version, "/">> \o DopplerFileName(checksum.text[i]))

PackagePopulate(self, r, w) ==
  CASE self.cls = "ReferenceFactory" -> ReferenceFactory_populate(self, r, w)
    [] self.cls = "CodecovBashUploader" -> CodecovBashUploader_populate(self, r, w)
    [] self.cls = "Transmission" -> Transmission_populate(self, r, w)
    [] self.cls = "Doppler" -> Doppler_populate(self, r, w)

\* Reference(**self.dict()): the four BaseReference fields, extras ignored
PackageSeed(self) ==
  BaseReference(self.algorithm, self.checksum_url, self.download_url, self.checksum)

\* mutant: only transport failures are caught
PackageCatchesNetworkOnly(e) == e.cls = "RequestException"

\* except IGNORED_EXCEPTIONS: pass
PackageCatches(e) == e.cls \in IGNORED_EXCEPTIONS

PackageMake(self, w) ==
  LET res == PackagePopulate(self, PackageSeed(self), w) IN
  [ref |-> res.ref, exc |-> res.exc,
   raised |-> res.exc # NoExc /\ ~PackageCatches(res.exc)]

\* ------------------------------------------------------- hecksum.py
sha256 == <<"sha256">>
sha512 == <<"sha512">>

\* hasher.__qualname__ of the hashlib constructors
Qualname(hasher) == <<"openssl_">> \o hasher

\* only the hashlib constructors themselves can be called as hashers
IsCallable(hasher) == hasher \in {sha256, sha512}

LegacyReference(hash_function, checksum_url, download_url, checksum) ==
  [hash_function |-> hash_function, checksum_url |-> checksum_url,
   download_url |-> download_url, checksum |-> checksum]

LegacyCodecovBashUploader ==
  [cls |-> "CodecovBashUploader", hasher |-> sha512, checksum_url |-> None,
   download_url |-> <<"https://codecov.io/bash">>, checksum |-> None]

LegacyTransmission(file_name_template, sha_key, version_key) ==
  [cls |-> "Transmission", hasher |-> sha256,
   checksum_url |-> <<"https://transmissionbt.com/includes/js/constants.js">>,
   download_url |-> None, checksum |-> None,
   file_name_template |-> file_name_template, sha_key |-> sha_key,
   version_key |-> version_key]

LegacyInstances ==
  [codecov_bash_uploader |-> LegacyCodecovBashUploader,
   test_failure |->
     [cls |-> "ReferenceFactory", hasher |-> sha512,
      checksum_url |-> <<"https://hecksum.com/failureSHA512.txt">>,
      download_url |-> <<"https://hecksum.com/failure.txt">>, checksum |-> None],
   transmission_mac |->
     LegacyTransmission(<<"Transmission-", "{version}", ".dmg">>,
                        "sha256_dmg", "current_version_dmg"),
   transmission_win_32 |->
     LegacyTransmission(<<"transmission-", "{version}", "-x86.msi">>,
                        "sha256_msi32", "current_version_msi"),
   transmission_win_64 |->
     LegacyTransmission(<<"transmission-", "{version}", "-x64.msi">>,
                        "sha256_msi64", "current_version_msi"),
   transmission_linux |->
     LegacyTransmission(<<"transmission-", "{version}", ".tar.xz">>,
                        "sha256_tar", "current_version_tar")]

REFERENCE_FACTORIES ==
  [rec1stqERwHeVoyTr |-> LegacyInstances.codecov_bash_uploader,
   recU4m6YnYdQ4U76q |-> LegacyInstances.test_failure,
   recPGEEzOeJ2gNh7u |-> LegacyInstances.transmission_mac,
   rec6xk5CUPcjsqIyD |-> LegacyInstances.transmission_win_32,
   recZOMQpGtd524lsj |-> LegacyInstances.transmission_win_64,
   recVSRZVqVDt2SCom |-> LegacyInstances.transmission_linux]

LegacyReferenceFactory_populate(self, r, w) ==
  LET body == get_raised(r.checksum_url, w.r1) IN
  IF body.exc # NoExc THEN Raise(r, body.exc)
  ELSE Ok([r EXCEPT !.checksum = body.text])

LegacyCodecovBashUploader_populate(self, r, w) ==
  LET script == get_raised(r.download_url, w.r1) IN
  IF script.exc # NoExc THEN Raise(r, script.exc) ELSE
  LET version == SearchQuoted("VERSION", script.text) IN
  IF version = None THEN Raise(r, PatternAttributeError) ELSE
  LET a == [r EXCEPT !.checksum_url =
              <<"https://raw.githubusercontent.com/codecov/codecov-bash/">>
                \o version \o <<"/SHA512SUM">>] IN
  LET checksum == get_raised(a.checksum_url, w.r2) IN
  IF checksum.exc # NoExc THEN Raise(a, checksum.exc) ELSE
  LET i == SearchLine(checksum.text, CodecovMatching, 1) IN
  IF i = 0 THEN Raise(a, PatternAttributeError)
  ELSE Ok([a EXCEPT !.checksum = checksum.text[i].sum])

\* the keys and the template are read from ref, the Reference being populated
LegacyTransmission_populate(self, r, w) ==
  LET constants == get_raised(r.checksum_url, w.r1) IN
  IF constants.exc # NoExc THEN Raise(r, constants.exc) ELSE
  IF ~HasAttr(r, "sha_key") THEN Raise(r, MissingAttributeError) ELSE
  LET sha == SearchQuoted(r.sha_key, constants.text) IN
  IF sha = None THEN Raise(r, PatternAttributeError) ELSE
  LET a == [r EXCEPT !.checksum = sha] IN
  IF ~HasAttr(a, "version_key") THEN Raise(a, MissingAttributeError) ELSE
  LET version == SearchQuoted(a.version_key, constants.text) IN
  IF version = None THEN Raise(a, PatternAttributeError) ELSE
  IF ~HasAttr(a, "file_name_template") THEN Raise(a, MissingAttributeError) ELSE
  LET file_name == Format(a.file_name_template, version) IN
  Ok([a EXCEPT !.download_url = <<TransmissionReleases>> \o file_name])

LegacyPopulate(self, r, w) ==
  CASE self.cls = "ReferenceFactory" -> LegacyReferenceFactory_populate(self, r, w)
    [] self.cls = "CodecovBashUploader" -> LegacyCodecovBashUploader_populate(self, r, w)
    [] self.cls = "Transmission" -> LegacyTransmission_populate(self, r, w)

LegacySeed(self) ==
  LegacyReference(Qualname(self.hasher), self.checksum_url, self.download_url,
                  self.checksum)

\* with suppress(Exception)
LegacyCatches(e) == TRUE

LegacyMake(self, w) ==
  LET res == LegacyPopulate(self, LegacySeed(self), w) IN
  [ref |-> res.ref, exc |-> res.exc,
   raised |-> res.exc # NoExc /\ ~LegacyCatches(res.exc)]

Contents == {"x", "y"}

\* hasher(content).hexdigest()
hexdigest(content) == IF content = "x" THEN <<"a">> ELSE <<"b">>

create_download_checksum(url, hasher, d) ==
  IF url = None \/ d.status # 200 THEN [exc |-> RequestException, value |-> None]
  ELSE IF ~IsCallable(hasher) THEN [exc |-> NotCallableTypeError, value |-> None]
  ELSE [exc |-> NoExc, value |-> hexdigest(d.content)]

\* mutant: the except branch reports Failing
CreateStatusFailingOnException(r, d) ==
  IF ~HasAttr(r, "download_url") \/ ~HasAttr(r, "hash_func") THEN "Failing"
  ELSE LET c == create_download_checksum(r.download_url, r.hash_func, d) IN
       IF c.exc # NoExc THEN "Failing"
       ELSE IF r.checksum = c.value THEN "Passing" ELSE "Failing"

\* the try/except/else of Check.create; the arguments of the call are
\* evaluated inside the try
CreateStatus(r, d) ==
  IF ~HasAttr(r, "download_url") \/ ~HasAttr(r, "hash_func") THEN "Error"
  ELSE LET c == create_download_checksum(r.download_url, r.hash_func, d) IN
       IF c.exc # NoExc THEN "Error"
       ELSE IF r.checksum = c.value THEN "Passing" ELSE "Failing"

\* Check.post
PostResult(c, key_set, answer) ==
  IF ~key_set THEN [raised |-> TRUE, exc |-> KeyError, attempts |-> 0]
  ELSE IF answer = 0 THEN [raised |-> TRUE, exc |-> RequestException, attempts |-> 1]
  ELSE [raised |-> FALSE, exc |-> NoExc, attempts |-> 1]

\* ------------------------------------------------------------ the machine
NoWeb == [r1 |-> NoResponse, r2 |-> NoResponse]
NoRemote == [status |-> 0, content |-> ""]
NoCheck == [project |-> "", status |-> "", checksum |-> None, checksum_url |-> None,
            download_url |-> None]
NoPost == [raised |-> FALSE, exc |-> NoExc, attempts |-> 0]
NoSink == [answer |-> 0, key_set |-> FALSE]

\* the environment of one post(): whether AIRTABLE_API_KEY is set and, when
\* it is, what the endpoint answers
SinkStates == {[answer |-> a, key_set |-> TRUE] : a \in Statuses} \cup {NoSink}

RemoteResponses ==
  {[status |-> 200, content |-> c] : c \in Contents}
    \cup {[status |-> 404, content |-> ""], NoRemote}

\* what the two fetches of one make() read, by factory class
Tokens1(self) ==
  CASE self.cls = "ReferenceFactory" -> {"a", "\n"}
    [] self.cls = "Transmission" -> KVTokens({self.sha_key, self.version_key})
    [] self.cls = "CodecovBashUploader" -> ScriptTokens
    [] self.cls = "Doppler" -> {}

Max1(self) ==
  CASE self.cls = "ReferenceFactory" -> MaxBody
    [] self.cls \in {"Transmission", "CodecovBashUploader"} -> MaxText
    [] self.cls = "Doppler" -> 0

Tokens2(self) ==
  CASE self.cls = "CodecovBashUploader" -> CodecovLines
    [] self.cls = "Doppler" -> DopplerLines
    [] OTHER -> {}

Max2(self) ==
  CASE self.cls = "CodecovBashUploader" -> MaxSums
    [] self.cls = "Doppler" -> MaxManifest
    [] OTHER -> 0

\* the final urls a first fetch answering status can report
Urls(self, status) ==
  IF self.cls # "Doppler" \/ status = 0 THEN {<<>>}
  ELSE IF status = 404 THEN {<<ReleasesUrl, "latest">>}
  ELSE RedirectUrls

\* the second fetch is made only when the first one got the factory that far
SecondFetch(self, r1) ==
  CASE self.cls = "CodecovBashUploader" ->
         r1.status = 200 /\ SearchQuoted("VERSION", r1.text) # None
    [] self.cls = "Doppler" -> r1.status # 0 /\ SearchVersion(r1.url, 1) # "None"
    [] OTHER -> FALSE

\* the environment answers the fetches of one make(): a body only with 200
Fetch(self) ==
  \E s1 \in Statuses :
    \E u \in Urls(self, s1), k1 \in (IF s1 = 200 THEN 0..Max1(self) ELSE {0}) :
      \E t1 \in [1..k1 -> Tokens1(self)] :
        LET r1 == [status |-> s1, text |-> t1, url |-> u] IN
        \E s2 \in (IF SecondFetch(self, r1) THEN Statuses ELSE {0}) :
          \E k2 \in (IF s2 = 200 THEN 0..Max2(self) ELSE {0}) :
            \E t2 \in [1..k2 -> Tokens2(self)] :
              web' = [r1 |-> r1, r2 |-> [status |-> s2, text |-> t2, url |-> <<>>]]

MakeResult(i, self, w) == IF i = "legacy" THEN LegacyMake(self, w) ELSE PackageMake(self, w)

Init ==
  /\ \/ impl = "package" /\ factory \in PackageFactories
     \/ impl = "legacy" /\ factory \in {REFERENCE_FACTORIES[id] : id \in DOMAIN REFERENCE_FACTORIES}
  /\ pc = "init"
  /\ web = NoWeb
  /\ ref = IF impl = "legacy" THEN LegacySeed(factory) ELSE PackageSeed(factory)
  /\ exc = NoExc
  /\ remote = NoRemote
  /\ check = NoCheck
  /\ sink = NoSink
  /\ post = NoPost

\* ReferenceFactory.make
Make ==
  /\ pc = "init"
  /\ Fetch(factory)
  /\ LET m == MakeResult(impl, factory, web') IN
     /\ ref' = m.ref
     /\ exc' = m.exc
     /\ pc' = IF m.raised THEN "make_raised" ELSE "made"
  /\ UNCHANGED <<impl, factory, remote, check, sink, post>>

\* Project.reference: the registry key of the factory
AirtableId(self) == CHOOSE id \in DOMAIN REFERENCE_FACTORIES : REFERENCE_FACTORIES[id] = self

\* Check.create, from Project.reference to the Check it returns
CheckCreate ==
  /\ pc = "init"
  /\ impl = "legacy"
  /\ Fetch(factory)
  /\ \E d \in RemoteResponses :
       LET m == LegacyMake(REFERENCE_FACTORIES[AirtableId(factory)], web') IN
       /\ ref' = m.ref
       /\ exc' = m.exc
       /\ remote' = d
       /\ IF m.raised
          THEN pc' = "create_raised" /\ check' = NoCheck
          ELSE /\ pc' = "checked"
               /\ check' = [project |-> AirtableId(factory),
                            status |-> CreateStatus(m.ref, d),
                            checksum |-> m.ref.checksum,
                            checksum_url |-> m.ref.checksum_url,
                            download_url |-> m.ref.download_url]
  /\ UNCHANGED <<impl, factory, sink, post>>

\* Check.post
Post ==
  /\ pc = "checked"
  /\ \E s \in SinkStates :
       LET answer == s.answer
           key_set == s.key_set IN
       /\ sink' = s
       /\ post' = PostResult(check, key_set, answer)
       /\ pc' = IF PostResult(check, key_set, answer).raised THEN "post_raised" ELSE "posted"
  /\ UNCHANGED <<impl, factory, web, ref, exc, remote, check>>

Next == Make \/ CheckCreate \/ Post

Spec == Init /\ [][Next]_vars

\* ------------------------------------------------------------ properties
MakeDone == pc \in {"made", "make_raised"}
CreateDone == pc \in {"checked", "posted", "post_raised"}
PostDone == pc \in {"posted", "post_raised"}
IgnorableCauses == {"network", "pattern"}

\* C1: for every factory variant, make() returns a Reference (it does not
\* raise) whenever its populate step failed for an ignorable cause: a fetch
\* that did not answer 2xx, or a pattern that was not found.
C1_MakeReturnsOnIgnorableFailure ==
  (MakeDone /\ exc.cause \in IgnorableCauses) => pc = "made"

C1_Witness ==
  /\ pc = "made"
  /\ impl = "package"
  /\ factory.cls = "Doppler"
  /\ exc = PatternTypeError
  /\ ~populated(ref)

\* C2: Check.create gives Passing when the download succeeds and its digest
\* equals reference.checksum, Failing when the download succeeds and the two
\* differ, and Error when downloading or hashing raises.
C2_StatusClassifiesOutcome ==
  CreateDone =>
    LET downloaded == ref.download_url # None /\ remote.status = 200 IN
    /\ (downloaded /\ hexdigest(remote.content) = ref.checksum) => check.status = "Passing"
    /\ (downloaded /\ hexdigest(remote.content) # ref.checksum) => check.status = "Failing"
    /\ ~downloaded => check.status = "Error"

\* C3: when make() swallowed a populate failure and returned a Reference
\* that is not fully populated, the Check created from it has status Error,
\* also when download_url is set and checksum is absent.
C3_PartialReferenceIsError ==
  (CreateDone /\ exc # NoExc /\ ~populated(ref)) => check.status = "Error"

C3_Witness ==
  /\ pc = "checked"
  /\ exc # NoExc
  /\ ref.download_url # None
  /\ ref.checksum = None
  /\ remote.status = 200
  /\ check.status = "Error"

\* C4: make() swallows only network and pattern-not-found failures: when
\* populate raises anything else, make() raises it to the caller.
C4_OtherExceptionsPropagate ==
  (MakeDone /\ exc # NoExc /\ exc.cause \notin IgnorableCauses) => pc = "make_raised"

\* C5: post() submits once, and a failed submission (no connection, or an
\* answer that is not 2xx) is raised to the caller.
C5_PostSurfacesFailure ==
  (PostDone /\ sink.key_set) =>
    /\ post.attempts = 1
    /\ sink.answer # 200 => (post.raised /\ post.exc.cause = "network")

\* C6: populated() is true exactly when algorithm, checksum_url,
\* download_url and checksum are all set and non-empty.
C6_PopulatedIffAllFour ==
  (MakeDone /\ impl = "package") =>
    (populated(ref) <=> \A f \in Fields : ref[f] # None /\ Len(ref[f]) > 0)

C6_Witness ==
  /\ pc = "made"
  /\ impl = "package"
  /\ ref.checksum = <<>>
  /\ ref.checksum_url # None
  /\ ref.download_url # None
  /\ ~populated(ref)

\* c is b without its leading and trailing whitespace
IsTrimOf(c, b) ==
  \E p, q \in 0..Len(b) :
    /\ p + q <= Len(b)
    /\ c = SubSeq(b, p + 1, Len(b) - q)
    /\ \A i \in 1..p : IsSpace(b[i])
    /\ \A i \in (Len(b) - q + 1)..Len(b) : IsSpace(b[i])
    /\ c = <<>> \/ (~IsSpace(c[1]) /\ ~IsSpace(c[Len(c)]))

\* C7: for the generic factory, the checksum of the Reference make() returns
\* is the body fetched from checksum_url without its leading and trailing
\* whitespace.
C7_GenericChecksumTrimmed ==
  (pc = "made" /\ factory.cls = "ReferenceFactory" /\ exc = NoExc) =>
    IsTrimOf(ref.checksum, web.r1.text)

EndsWith(s, t) ==
  Len(t) <= Len(s) /\ SubSeq(s, Len(s) - Len(t) + 1, Len(s)) = t

\* the key occurs once in the text, on a line of its own, with value val
OnOwnLine(text, key, val) ==
  \E i \in 1..Len(text) :
    /\ text[i] = [k |-> key, v |-> val]
    /\ \A j \in 1..Len(text) : text[j].k = key => j = i
    /\ i = 1 \/ text[i - 1] = NL
    /\ i = Len(text) \/ text[i + 1] = NL

\* C8: for the JS-constants factory, when the fetched text holds
\* <sha_key>: "C" and <version_key>: "V", make() returns a Reference with
\* checksum C and a download_url ending in the file name template with
\* {version} replaced by V.
C8_TransmissionExtracts ==
  (pc = "made" /\ factory.cls = "Transmission" /\ web.r1.status = 200) =>
    \A C \in Vals, V \in Vals :
      (/\ OnOwnLine(web.r1.text, factory.sha_key, C)
       /\ OnOwnLine(web.r1.text, factory.version_key, V)) =>
        /\ ref.checksum = C
        /\ EndsWith(ref.download_url, Format(factory.file_name_template, V))

\* the version of the redirect target and the manifest lines naming a file of
\* that version and of the factory's architecture
RedirectVersion == CHOOSE v \in Versions : \E i \in 1..Len(web.r1.url) : web.r1.url[i] = v
ManifestMatches ==
  {i \in 1..Len(web.r2.text) :
     /\ web.r2.text[i].ver = RedirectVersion
     /\ web.r2.text[i].arch = factory.architecture}

\* C9: for the release-manifest factory, when two or more manifest lines
\* match, checksum and file name both come from the first matching line in
\* manifest order, and download_url is built from the version and that file
\* name.
C9_DopplerFirstMatch ==
  (/\ pc = "made"
   /\ factory.cls = "Doppler"
   /\ web.r2.status = 200
   /\ Cardinality(ManifestMatches) >= 2) =>
    LET line == web.r2.text[Min(ManifestMatches)] IN
    /\ ref.checksum = line.sum
    /\ ref.download_url =
         <<DopplerDownload, RedirectVersion, "/", "doppler_", RedirectVersion, "_",
           factory.architecture, ".", line.ext>>

C9_Witness ==
  /\ pc = "made"
  /\ factory.cls = "Doppler"
  /\ web.r2.status = 200
  /\ Cardinality(ManifestMatches) >= 2
  /\ Min(ManifestMatches) = 2
  /\ web.r2.text[Min(ManifestMatches)].sum # web.r2.text[Max(ManifestMatches)].sum
  /\ web.r2.text[Min(ManifestMatches)].ext # web.r2.text[Max(ManifestMatches)].ext
  /\ ref.checksum = web.r2.text[Min(ManifestMatches)].sum

\* C10: for every factory of the references registry, when populate raised an
\* ignorable exception the Reference make() returns is not populated: fields
\* assigned before the failing step hold their new values and the others
\* hold the factory's seed values.
C10_FailedResolutionNotPopulated ==
  (pc = "made" /\ impl = "package" /\ exc # NoExc) =>
    /\ ~populated(ref)
    /\ ref.algorithm = factory.algorithm
    /\ factory.cls = "ReferenceFactory" =>
         /\ ref.checksum = factory.checksum
         /\ ref.checksum_url = factory.checksum_url
         /\ ref.download_url = factory.download_url
    /\ factory.cls = "CodecovBashUploader" =>
         /\ ref.checksum = factory.checksum
         /\ ref.download_url = factory.download_url
         /\ IF web.r1.status = 200 /\ KeyIdx("VERSION", web.r1.text) # {}
            THEN ref.checksum_url # None
            ELSE ref.checksum_url = factory.checksum_url
    /\ factory.cls = "Transmission" =>
         /\ ref.download_url = factory.download_url
         /\ ref.checksum_url = factory.checksum_url
         /\ IF web.r1.status = 200 /\ KeyIdx(factory.sha_key, web.r1.text) # {}
            THEN ref.checksum # None
            ELSE ref.checksum = factory.checksum
    /\ factory.cls = "Doppler" =>
         /\ ref.download_url = factory.download_url
         /\ ref.checksum = factory.checksum
         /\ IF web.r1.status # 0 /\ \E i \in 1..Len(web.r1.url) : web.r1.url[i] \in Versions
            THEN ref.checksum_url # None
            ELSE ref.checksum_url = factory.checksum_url

C10_Witness ==
  /\ pc = "made"
  /\ impl = "package"
  /\ factory.cls = "Transmission"
  /\ exc = PatternAttributeError
  /\ ref.checksum # None
  /\ ref.download_url = None
  /\ ~populated(ref)
====
